---- MODULE Spec2Model ----
(***************************************************************************)
(* Model of the ModMux driver of src/modmux.py: the channel table of the   *)
(* 12-channel Bruker corrector supply, the commands that act on it and the *)
(* multiplexed analog-input scan of update().                              *)
(*                                                                         *)
(* A call of the driver is one step from pc = "idle" to pc = "returned"    *)
(* (update()'s scan runs column by column in between); `call` then holds   *)
(* what was called and how it ended and `io` the register traffic of that  *)
(* call, in order.  Return hands control back to the caller.               *)
(***************************************************************************)
EXTENDS Integers, Sequences, FiniteSets, TLC

(* ------------------------------------------------------------------ *)
(* Constants of src/modmux.py                                          *)
(* ------------------------------------------------------------------ *)
CHANNEL_NUM == 12

AIN_WRITE_BASE == 586
AIN_READ_BASE == 202
AIN_MODULE_NUM == 3
AIN_PER_MODULE_NUM == 8
AIN_TOTAL_NUM == AIN_MODULE_NUM * AIN_PER_MODULE_NUM
AIN_MODULE_SIZE == 2
AIN_TOTAL_SIZE == AIN_MODULE_SIZE * AIN_MODULE_NUM
\* AIN_MEAS_PM10V | AIN_FORMAT_IB_IL | AIN_FILTER_AVG32 = 0x1 | 0x000 | 0x3000
AIN_CONFIG_OPTIONS == 12289
\* [ 0x6000, AIN_CONFIG_OPTIONS ]
AIN_CONTROL_CONFIG == <<24576, AIN_CONFIG_OPTIONS>>

AOUT_WRITE_BASE == 576
AOUT_READ_BASE == 192
AOUT_MODULE_NUM == 2
AOUT_PER_MODULE == 8
AOUT_GROUP_PER_MODULE == 2
AOUT_PER_GROUP == 4
AOUT_MODULE_SIZE == 5
AOUT_MAX_VALUE == 32512
AOUT_MIN_VALUE == -32512
\* [ 0x100, 0x900 ], indexed from 1 here
AOUT_GROUP_CODE == <<256, 2304>>
AOUT_TOTAL_SIZE == AOUT_MODULE_SIZE * AOUT_MODULE_NUM
\* 0x6000 | AOUT_RANGE_PM10V | AOUT_FORMAT_IB_IL
AOUT_CONTROL_CONFIG == 24577

DIN_BASE == 0
COIL_OUT == 0
DEFAULT_ILIMIT == 25
\* 0x8000
MASK_ERROR == 32768
\* READ_DELAY = 1.0 / 100 and MAX_DELAY = 0.1, in hundredths of a second
READ_DELAY == 1
MAX_DELAY == 10

(* ------------------------------------------------------------------ *)
(* Bounds of the model                                                 *)
(* ------------------------------------------------------------------ *)
\* calls of the driver in one behaviour
MaxCalls == 3
\* repeated reads the hardware may force over the driver's lifetime
MaxRepeat == 1
\* the channels the callers command and query: two of the second group of
\* module 0 (poweroff and configure act on all twelve)
CmdChannels == {5, 6}

(* ------------------------------------------------------------------ *)
(* Python values                                                       *)
(* ------------------------------------------------------------------ *)
\* a nullable number is None or Some(v)
None == <<>>
Some(v) == <<v>>
Val(x) == x[1]

\* a nullable boolean is one of these three; only PyTrue is truthy
PyTrue == "True"
PyFalse == "False"
PyNone == "None"
\* a truth value that takes the unknown for true
Truthy_unknown(x) == x # PyFalse
Truthy(x) == x = PyTrue
PyBool(b) == IF b THEN PyTrue ELSE PyFalse

Channels == 0 .. (CHANNEL_NUM - 1)
Abs(x) == IF x < 0 THEN -x ELSE x

\* a ^ b and a & b on non-negative integers
RECURSIVE BitXor(_, _)
BitXor(a, b) ==
    IF a = 0 /\ b = 0 THEN 0
    ELSE (((a % 2) + (b % 2)) % 2) + 2 * BitXor(a \div 2, b \div 2)
RECURSIVE BitAnd(_, _)
BitAnd(a, b) ==
    IF a = 0 \/ b = 0 THEN 0
    ELSE ((a % 2) * (b % 2)) + 2 * BitAnd(a \div 2, b \div 2)

\* self.name: 'channel %s' % ch, written here as the number ch
name == [ch \in Channels |-> ch]

\* A setpoint argument may be a float (the caller scales a physical value):
\* it is given in halves, vh standing for the number vh / 2.
\* int(value) truncates toward zero.
PyInt(vh) == IF vh >= 0 THEN vh \div 2 ELSE -((-vh) \div 2)

\* a range that leaves its two ends out
InRange_open(vh) == 2 * AOUT_MIN_VALUE < vh /\ vh < 2 * AOUT_MAX_VALUE

\* assert AOUT_MIN_VALUE <= value <= AOUT_MAX_VALUE
InRange(vh) == 2 * AOUT_MIN_VALUE <= vh /\ vh <= 2 * AOUT_MAX_VALUE

\* setpoint arguments tried: -32513, -32512, -7.5, +32512, +32513
SetValues == {2 * AOUT_MIN_VALUE - 2, 2 * AOUT_MIN_VALUE, -15,
              2 * AOUT_MAX_VALUE, 2 * AOUT_MAX_VALUE + 2}

\* zero offsets the callers configure (BrukerALC_PS.init_device, int(offset)):
\* one distinct offset per channel, that of channel 6 beyond the output range
ZeroConfigs ==
    { [ch \in Channels |-> Some(IF ch = 6 THEN AOUT_MAX_VALUE + 1 ELSE 110 + ch)] }

(* ------------------------------------------------------------------ *)
(* State                                                               *)
(* ------------------------------------------------------------------ *)
VARIABLES
    channel_on,         \* self.channel_on
    Izero,              \* self.Izero
    Ilimit,             \* self.Ilimit
    Iref,               \* self.Iref
    Imeas,              \* self.Imeas
    Vmeas,              \* self.Vmeas
    Imeas_state,        \* self.Imeas_state
    Vmeas_state,        \* self.Vmeas_state
    st_ready,           \* self.st_ready
    st_on,              \* self.st_on
    need_config,        \* self.need_config
    jiffies,            \* self.jiffies
    read_repeat_count,  \* self.read_repeat_count
    write_count,        \* self.write_count
    pc,                 \* where the driver is: idle, select (for loop of read_AIN),
                        \* read (its while loop), scanned (read_AIN returned), returned
    call,               \* the call in progress or just returned
    io,                 \* register traffic of that call, in order
    calls,              \* calls made so far
    scan_ch0,           \* read_AIN: ch0, the column being scanned
    aiva,               \* read_AIN: aiva, the analog input values so far
    hw_level,           \* hardware: what the analog inputs carry during this scan
    spin,               \* read_AIN: parity of the repeated reads past the bound of the counter
    last,               \* the call before this one, where the caller keeps it
    ack,                \* write_ack: its arguments, its locals and the clock
    fn,                 \* a module-level function applied: which, to what, the result
    thr                 \* callers inside set_Iref at the same time: where each one is

table == <<channel_on, Izero, Ilimit, Iref>>
meas == <<Imeas, Vmeas, Imeas_state, Vmeas_state>>
power == <<st_ready, st_on>>
counters == <<jiffies, read_repeat_count, write_count>>
scan == <<scan_ch0, aiva, hw_level, spin>>
\* what no operation of the driver touches
aside == <<last, ack, fn, thr>>
vars == <<channel_on, Izero, Ilimit, Iref, Imeas, Vmeas, Imeas_state,
          Vmeas_state, st_ready, st_on, need_config, jiffies,
          read_repeat_count, write_count, pc, call, io, calls,
          scan_ch0, aiva, hw_level, spin, last, ack, fn, thr>>

NoCall == [op |-> "none", ch |-> -1, arg |-> 0, force |-> FALSE,
           result |-> "none", ret |-> "none", names |-> <<>>]

\* no call was made before
NoLast == [op |-> "none", ch |-> -1, ret |-> "none"]

\* no function was applied
NoFn == [name |-> "none", arg |-> None, ok |-> TRUE, out |-> None]

\* write_ack is not running
NoAck == [addr |-> 0, words |-> <<>>, idx |-> {}, now |-> 0, max_t |-> 0,
          dat |-> None, read_count |-> 0]

\* the callers that may be inside set_Iref together
Callers == {1, 2}
\* no caller is inside set_Iref
NoThr == [c \in Callers |-> [pc |-> "out", ch |-> -1, burst |-> <<>>]]

AllNone(n) == [k \in 0 .. (n - 1) |-> None]

Init ==
    /\ channel_on = [ch \in Channels |-> PyNone]
    /\ Izero \in ZeroConfigs
    /\ Ilimit = [ch \in Channels |-> Some(DEFAULT_ILIMIT)]
    /\ Iref = [ch \in Channels |-> None]
    /\ Imeas = AllNone(CHANNEL_NUM)
    /\ Vmeas = AllNone(CHANNEL_NUM)
    /\ Imeas_state = "unset"
    /\ Vmeas_state = "unset"
    /\ st_ready = PyNone
    /\ st_on = PyNone
    /\ need_config = FALSE
    /\ jiffies = 0
    /\ read_repeat_count = 0
    /\ write_count = 0
    /\ pc = "idle"
    /\ call = NoCall
    /\ io = <<>>
    /\ calls = 0
    /\ scan_ch0 = 0
    /\ aiva = AllNone(AIN_TOTAL_NUM)
    /\ hw_level = 0
    /\ spin = FALSE
    /\ last = NoLast
    /\ ack = NoAck
    /\ fn = NoFn
    /\ thr = NoThr

(* ------------------------------------------------------------------ *)
(* Register traffic                                                    *)
(* ------------------------------------------------------------------ *)
\* mb_write([addr, n] + data); ok is FALSE when the transport raised
MbWrite(addr, n, data, ok) ==
    [kind |-> "write", addr |-> addr, n |-> n, data |-> data, ok |-> ok]
\* mb_read([addr, n]) returning data
MbRead(addr, n, data, ok) ==
    [kind |-> "read", addr |-> addr, n |-> n, data |-> data, ok |-> ok]
\* mb_coils([addr, 1, flag])
MbCoil(addr, flag, ok) ==
    [kind |-> "coil", addr |-> addr, n |-> 1, data |-> <<flag>>, ok |-> ok]

\* a call is made: the driver is idle and the caller has calls left
Entered ==
    /\ pc = "idle"
    /\ calls < MaxCalls
    /\ calls' = calls + 1

\* the call ends: what was called, how it ended (result), what it returned
\* (ret) and the channel names its error message lists (names)
Returned(op, ch, arg, force, result, ret, names) ==
    /\ pc' = "returned"
    /\ call' = [op |-> op, ch |-> ch, arg |-> arg, force |-> force,
                result |-> result, ret |-> ret, names |-> names]

(* ------------------------------------------------------------------ *)
(* Analog-output group writer: ModMux._write                           *)
(* ------------------------------------------------------------------ *)
\* modidx = ch0 / AOUT_PER_MODULE
modidx(ch0) == ch0 \div AOUT_PER_MODULE
\* aoutidx = ch0 % AOUT_PER_MODULE
aoutidx(ch0) == ch0 % AOUT_PER_MODULE
\* groupidx = aoutidx / AOUT_PER_GROUP (the local of _write)
write_groupidx(ch0) == aoutidx(ch0) \div AOUT_PER_GROUP
\* addr = AOUT_WRITE_BASE + modidx*AOUT_MODULE_SIZE
write_addr(ch0) == AOUT_WRITE_BASE + modidx(ch0) * AOUT_MODULE_SIZE
\* a start that forgets the group within the module
ch_start_module(ch0) == modidx(ch0) * AOUT_PER_MODULE
\* ch_start = modidx*AOUT_PER_MODULE + groupidx*AOUT_PER_GROUP
ch_start(ch0) == modidx(ch0) * AOUT_PER_MODULE + write_groupidx(ch0) * AOUT_PER_GROUP

\* Iref[ch] if on[ch] else Izero[ch]
write_value(ch, iref, on) == IF Truthy(on[ch]) THEN iref[ch] ELSE Izero[ch]

\* values = [ ... for ch in range(ch_start, ch_end) ], indexed from 1 here
write_values(ch0, iref, on) ==
    [k \in 1 .. AOUT_PER_GROUP |-> write_value(ch_start(ch0) + k - 1, iref, on)]

\* the channel whose name is reported for the k-th value of the group
\* (k from 0): enumerate(values) counts from 0, not from ch_start
missing_index(ch0, k) == k

\* missing_channels = [ self.name[ch] for ch,v in enumerate(values) if v is None ]
missing_channels(ch0, values) ==
    LET ks == SelectSeq(<<0, 1, 2, 3>>, LAMBDA k : values[k + 1] = None)
    IN  [i \in 1 .. Len(ks) |-> name[missing_index(ch0, ks[i])]]

\* args = [ addr, 1+AOUT_PER_GROUP, AOUT_GROUP_CODE[groupidx] ] + values
write_args(ch0, values, ok) ==
    MbWrite(write_addr(ch0), 1 + AOUT_PER_GROUP,
            <<AOUT_GROUP_CODE[write_groupidx(ch0) + 1]>>
                \o [k \in 1 .. AOUT_PER_GROUP |-> Val(values[k])],
            ok)

\* _write(ch0) on the table (iref, on): how it ends, the names it reports
\* and the burst it sends; ok is FALSE when the transport raises
_write(ch0, iref, on, ok) ==
    LET values == write_values(ch0, iref, on)
        miss == missing_channels(ch0, values)
    IN  IF miss # <<>>
        THEN [result |-> "missing", names |-> miss, io |-> <<>>]
        ELSE [result |-> IF ok THEN "ok" ELSE "comm", names |-> <<>>,
              io |-> <<write_args(ch0, values, ok)>>]

\* a loop that stops one group short
write_all_channels_short == <<0, 4>>

\* range(0, CHANNEL_NUM, AOUT_PER_GROUP)
write_all_channels == <<0, 4, 8>>

\* _write_all() from the i-th channel of write_all_channels on; failAt is
\* the number of the write at which the transport raises (0: never)
RECURSIVE _write_all(_, _, _, _)
_write_all(i, iref, on, failAt) ==
    IF i > Len(write_all_channels)
    THEN [result |-> "ok", names |-> <<>>, io |-> <<>>, count |-> 0]
    ELSE LET w == _write(write_all_channels[i], iref, on, failAt # i)
         IN  IF w.result # "ok"
             THEN [result |-> w.result, names |-> w.names, io |-> w.io, count |-> 1]
             ELSE LET rest == _write_all(i + 1, iref, on, failAt)
                  IN  [result |-> rest.result, names |-> rest.names,
                       io |-> w.io \o rest.io, count |-> 1 + rest.count]

\* _power(flag): mb_coils([COIL_OUT, 1, int(bool(flag))])
_power(flag, ok) == MbCoil(COIL_OUT, IF flag THEN 1 ELSE 0, ok)

(* ------------------------------------------------------------------ *)
(* Commands                                                            *)
(* ------------------------------------------------------------------ *)
poweron(ok) ==
    /\ Entered
    /\ io' = <<_power(TRUE, ok)>>
    /\ Returned("poweron", -1, 0, FALSE, IF ok THEN "ok" ELSE "comm", "none", <<>>)
    /\ UNCHANGED <<aside, table, meas, power, need_config, counters, scan>>

\* a power-off that marks the channels off
poweroff_channel_off == [ch \in Channels |-> PyFalse]

\* self.channel_on = [ None ] * CHANNEL_NUM
poweroff_channel_on == [ch \in Channels |-> PyNone]

\* failAt: which of the four transfers (three bursts, then the coil) raises
poweroff(failAt) ==
    LET on1 == poweroff_channel_on
        w == _write_all(1, Iref, on1, failAt)
        coil_ok == failAt # Len(write_all_channels) + 1
        p == IF w.result = "ok" THEN <<_power(FALSE, coil_ok)>> ELSE <<>>
        result == IF w.result # "ok" THEN w.result
                  ELSE IF coil_ok THEN "ok" ELSE "comm"
    IN  /\ Entered
        /\ channel_on' = on1
        /\ write_count' = write_count + w.count
        /\ io' = w.io \o p
        /\ Returned("poweroff", -1, 0, FALSE, result, "none", w.names)
        /\ UNCHANGED <<aside, Izero, Ilimit, Iref, meas, power, need_config,
                       jiffies, read_repeat_count, scan>>

\* a guess that looks at the setpoint only, never at the measured current
guess_on_setpoint(ch) ==
    IF Iref[ch] # None THEN PyBool(Val(Iref[ch]) # Val(Izero[ch])) ELSE PyNone

\* the guess of is_channel_on for a channel whose state is not determined
guess_on(ch) ==
    IF Izero[ch] = None THEN PyNone
    ELSE IF Iref[ch] # None THEN PyBool(Val(Iref[ch]) # Val(Izero[ch]))
    ELSE IF Imeas[ch] = None \/ Ilimit[ch] = None THEN PyNone
    ELSE PyBool(Abs(Val(Imeas[ch]) - Val(Izero[ch])) > Val(Ilimit[ch]))

\* an is_channel_on that looks at the table before it looks at st_on
is_channel_on_cached(ch) ==
    IF channel_on[ch] # PyNone THEN channel_on[ch]
    ELSE IF ~Truthy(st_on) THEN PyFalse
    ELSE guess_on(ch)

\* what is_channel_on(ch) returns
is_channel_on_value(ch) ==
    IF ~Truthy(st_on) THEN PyFalse
    ELSE IF channel_on[ch] = PyNone THEN guess_on(ch)
    ELSE channel_on[ch]

\* a guess that is returned but marks the channel off in the table
is_channel_on_table_off(ch) ==
    IF Truthy(st_on) /\ channel_on[ch] = PyNone
    THEN [channel_on EXCEPT ![ch] = PyFalse]
    ELSE channel_on

\* the table is_channel_on(ch) leaves: self.channel_on[ch] = o after a guess
is_channel_on_table(ch) ==
    IF Truthy(st_on) /\ channel_on[ch] = PyNone
    THEN [channel_on EXCEPT ![ch] = guess_on(ch)]
    ELSE channel_on

is_channel_on(ch) ==
    /\ Entered
    /\ channel_on' = is_channel_on_table(ch)
    /\ io' = <<>>
    /\ Returned("is_channel_on", ch, 0, FALSE, "ok", is_channel_on_value(ch), <<>>)
    /\ UNCHANGED <<aside, Izero, Ilimit, Iref, meas, power, need_config, counters, scan>>

\* the table switch_channel_off(ch0) writes the group from
switch_off_table(ch0) == channel_on

switch_channel_off(ch0, ok) ==
    LET w == _write(ch0, Iref, switch_off_table(ch0), ok)
    IN  /\ Entered
        /\ write_count' = write_count + 1
        /\ io' = w.io
        /\ channel_on' = IF w.result = "ok"
                         THEN [channel_on EXCEPT ![ch0] = PyFalse]
                         ELSE channel_on
        /\ Returned("switch_channel_off", ch0, 0, FALSE, w.result, "none", w.names)
        /\ UNCHANGED <<aside, Izero, Ilimit, Iref, meas, power, need_config,
                       jiffies, read_repeat_count, scan>>

\* a switch-on that resets the setpoint to Izero whether it is missing or not
switch_on_Iref_always(ch0) == [Iref EXCEPT ![ch0] = Izero[ch0]]

\* the setpoint switch_channel_on(ch0) leaves: a missing one becomes Izero
switch_on_Iref(ch0) ==
    IF Iref[ch0] = None THEN [Iref EXCEPT ![ch0] = Izero[ch0]] ELSE Iref

\* failAt: which transfer of the call raises (0: none); a forced call on a
\* supply that is not on sends the coil first, then the burst
switch_channel_on(ch0, force, failAt) ==
    LET pon == force /\ ~Truthy(st_on)
        coil_ok == failAt # 1
        wr_ok == failAt # (IF pon THEN 2 ELSE 1)
        iref1 == switch_on_Iref(ch0)
        w == _write(ch0, iref1, channel_on, wr_ok)
    IN  /\ Entered
        /\ IF ~force /\ ~Truthy(st_on)
           THEN /\ Returned("switch_channel_on", ch0, 0, force, "off", "none", <<>>)
                /\ io' = <<>>
                /\ UNCHANGED <<channel_on, Iref, write_count>>
           ELSE IF ~force /\ ~Truthy(st_ready)
           THEN /\ Returned("switch_channel_on", ch0, 0, force, "not_ready", "none", <<>>)
                /\ io' = <<>>
                /\ UNCHANGED <<channel_on, Iref, write_count>>
           ELSE IF pon /\ ~coil_ok
           THEN /\ Returned("switch_channel_on", ch0, 0, force, "comm", "none", <<>>)
                /\ io' = <<_power(TRUE, FALSE)>>
                /\ UNCHANGED <<channel_on, Iref, write_count>>
           ELSE /\ Iref' = iref1
                /\ write_count' = write_count + 1
                /\ io' = (IF pon THEN <<_power(TRUE, TRUE)>> ELSE <<>>) \o w.io
                /\ channel_on' = IF w.result = "ok"
                                 THEN [channel_on EXCEPT ![ch0] = PyTrue]
                                 ELSE channel_on
                /\ Returned("switch_channel_on", ch0, 0, force, w.result, "none", w.names)
        /\ UNCHANGED <<aside, Izero, Ilimit, meas, power, need_config,
                       jiffies, read_repeat_count, scan>>

\* vh: the value in halves
set_Iref(ch0, vh, ok) ==
    LET iref1 == [Iref EXCEPT ![ch0] = Some(PyInt(vh))]
        w == _write(ch0, iref1, channel_on, ok)
    IN  /\ Entered
        /\ IF ~InRange(vh)
           THEN /\ Returned("set_Iref", ch0, vh, FALSE, "assert", "none", <<>>)
                /\ io' = <<>>
                /\ UNCHANGED <<Iref, write_count>>
           ELSE IF Truthy(channel_on[ch0])
           THEN /\ Iref' = iref1
                /\ write_count' = write_count + 1
                /\ io' = w.io
                /\ Returned("set_Iref", ch0, vh, FALSE, w.result, "none", w.names)
           ELSE /\ Iref' = iref1
                /\ io' = <<>>
                /\ Returned("set_Iref", ch0, vh, FALSE, "ok", "none", <<>>)
                /\ UNCHANGED write_count
        /\ UNCHANGED <<aside, channel_on, Izero, Ilimit, meas, power, need_config,
                       jiffies, read_repeat_count, scan>>

(* ------------------------------------------------------------------ *)
(* update(): configuration                                             *)
(* ------------------------------------------------------------------ *)
\* ain_cfg = AIN_CONTROL_CONFIG*AIN_MODULE_NUM
ain_cfg == AIN_CONTROL_CONFIG \o AIN_CONTROL_CONFIG \o AIN_CONTROL_CONFIG
\* cfg1 = [ AOUT_CONTROL_CONFIG ] + [ 0 ] * AOUT_PER_GROUP
cfg1 == <<AOUT_CONTROL_CONFIG, 0, 0, 0, 0>>
\* aout_cfg = [ AOUT_CONTROL_CONFIG ] * AOUT_MODULE_NUM
aout_cfg == <<AOUT_CONTROL_CONFIG, AOUT_CONTROL_CONFIG>>
\* a sample that takes the first module's word for both
aout_state_first(data) == <<data[1], data[1]>>

\* data[::AOUT_MODULE_SIZE] of a read of AOUT_TOTAL_SIZE words
aout_state(data) == <<data[1], data[1 + AOUT_MODULE_SIZE]>>

\* what the hardware may answer to the two read-backs of configure():
\* the words written, or the words of a module that did not take them
AinReadbacks == {ain_cfg, <<0, 0>> \o AIN_CONTROL_CONFIG \o AIN_CONTROL_CONFIG}
\* (or the control words written and an output word that is not the 0 written)
AoutReadbacks == {cfg1 \o cfg1, cfg1 \o <<0, 0, 0, 0, 0>>,
                  <<AOUT_CONTROL_CONFIG, 7, 0, 0, 0>> \o cfg1}

\* the four transfers of configure(), up to the one that raises (failAt)
\* or the first read-back that fails its assertion
configure_io(ain_rb, aout_rb, failAt) ==
    LET t1 == MbWrite(AIN_WRITE_BASE, AIN_TOTAL_SIZE, ain_cfg, failAt # 1)
        t2 == MbWrite(AOUT_WRITE_BASE, AOUT_TOTAL_SIZE, cfg1 \o cfg1, failAt # 2)
        t3 == MbRead(AIN_READ_BASE, AIN_TOTAL_SIZE, ain_rb, failAt # 3)
        t4 == MbRead(AOUT_READ_BASE, AOUT_TOTAL_SIZE, aout_rb, failAt # 4)
    IN  IF failAt = 1 THEN <<t1>>
        ELSE IF failAt = 2 THEN <<t1, t2>>
        ELSE IF failAt = 3 \/ ain_rb # ain_cfg THEN <<t1, t2, t3>>
        ELSE <<t1, t2, t3, t4>>

\* a configure() that does not look at the analog output read-back
configure_result_lax(ain_rb, aout_rb, failAt) ==
    IF failAt \in 1 .. 3 THEN "comm"
    ELSE IF ain_rb # ain_cfg THEN "assert"
    ELSE IF failAt = 4 THEN "comm"
    ELSE "ok"

\* how configure() ends
configure_result(ain_rb, aout_rb, failAt) ==
    IF failAt \in 1 .. 3 THEN "comm"
    ELSE IF ain_rb # ain_cfg THEN "assert"
    ELSE IF failAt = 4 THEN "comm"
    ELSE IF aout_state(aout_rb) # aout_cfg THEN "assert"
    ELSE "ok"

\* update() with need_config set: configure(), and nothing else
update_configure(ain_rb, aout_rb, failAt) ==
    LET result == configure_result(ain_rb, aout_rb, failAt)
    IN  /\ Entered
        /\ need_config
        /\ io' = configure_io(ain_rb, aout_rb, failAt)
        /\ channel_on' = IF result = "ok" THEN [ch \in Channels |-> PyFalse]
                         ELSE channel_on
        /\ need_config' = IF result = "ok" THEN FALSE ELSE need_config
        /\ Returned("update", -1, 0, FALSE, result, "none", <<>>)
        /\ UNCHANGED <<aside, Izero, Ilimit, Iref, meas, power, counters, scan>>

(* ------------------------------------------------------------------ *)
(* update(): the scan of read_AIN                                      *)
(* ------------------------------------------------------------------ *)
\* ch_code = ch0*0x100
ch_code(ch0) == ch0 * 256
\* arg_select[2::AIN_MODULE_SIZE] = (ch_code,) * AIN_MODULE_NUM, the rest 0
arg_select(ch0) == <<ch_code(ch0), 0, ch_code(ch0), 0, ch_code(ch0), 0>>
\* data[::AIN_MODULE_SIZE]
status_words(data) == <<data[1], data[3], data[5]>>
\* data[1::AIN_MODULE_SIZE]
meas_words(data) == <<data[2], data[4], data[6]>>
\* t & MASK_ERROR, for a 16-bit word t
HasErrorBit(t) == (t \div MASK_ERROR) % 2 = 1
\* a test of the loop that looks at the first module only
not_latched_first(st, ch0) == st[1] # ch_code(ch0)
\* any(s != ch_code for s in status_words)
not_latched(st, ch0) == \E m \in 1 .. AIN_MODULE_NUM : st[m] # ch_code(ch0)
\* a test that looks at the first module only
any_error_first(st) == HasErrorBit(st[1])

\* any(t & MASK_ERROR for t in status_words)
any_error(st) == \E m \in 1 .. AIN_MODULE_NUM : HasErrorBit(st[m])
\* a store that packs the words of a column side by side
store_column_packed(a, ch0, mw) ==
    [k \in 0 .. (AIN_TOTAL_NUM - 1) |->
        IF k \div AIN_MODULE_NUM = ch0
        THEN Some(mw[(k % AIN_MODULE_NUM) + 1]) ELSE a[k]]

\* aiva[ch0::AIN_PER_MODULE_NUM] = meas
store_column(a, ch0, mw) ==
    [k \in 0 .. (AIN_TOTAL_NUM - 1) |->
        IF k % AIN_PER_MODULE_NUM = ch0
        THEN Some(mw[(k \div AIN_PER_MODULE_NUM) + 1]) ELSE a[k]]

\* Hardware: the word input c of module m carries at a level
HwLevels == {0, 1}
HwMeas(level, m, c) == 100 * level + AIN_PER_MODULE_NUM * m + c + 1
\* a status word that still shows the column selected before
HwStale(ch0) == ch_code((ch0 + AIN_PER_MODULE_NUM - 1) % AIN_PER_MODULE_NUM)
\* a status word of a module that lost its configuration: 0x8004
HwFault == MASK_ERROR + 4
\* where the hardware is seen to misbehave: columns and modules that may
\* answer with the column selected before, or with a fault
StaleColumns == {3}
StaleModules == {2}
FaultColumns == {2}
FaultModules == {1}
\* the column at whose selection the transport is seen to raise (a raise at
\* any other transfer of read_AIN leaves the driver the same way)
RaiseColumns == {5}
\* answers to one read of column ch0: every module latched, or one module
\* stale or faulty
HwAnswers(ch0) ==
    {[kind |-> "latched", m |-> 0]}
        \cup (IF ch0 \in StaleColumns THEN [kind : {"stale"}, m : StaleModules] ELSE {})
        \cup (IF ch0 \in FaultColumns THEN [kind : {"fault"}, m : FaultModules] ELSE {})
HwStatus(ans, m, ch0) ==
    IF ans.kind = "latched" \/ ans.m # m THEN ch_code(ch0)
    ELSE IF ans.kind = "stale" THEN HwStale(ch0)
    ELSE HwFault
\* the word next to a status word: the input of the column the status shows
HwWord(ans, level, m, ch0) ==
    IF ans.kind = "stale" /\ ans.m = m
    THEN HwMeas(level, m, (ch0 + AIN_PER_MODULE_NUM - 1) % AIN_PER_MODULE_NUM)
    ELSE HwMeas(level, m, ch0)
HwData(ans, level, ch0) ==
    <<HwStatus(ans, 0, ch0), HwWord(ans, level, 0, ch0),
      HwStatus(ans, 1, ch0), HwWord(ans, level, 1, ch0),
      HwStatus(ans, 2, ch0), HwWord(ans, level, 2, ch0)>>

\* update() without need_config: read_AIN() starts
update_scan ==
    /\ Entered
    /\ ~need_config
    /\ pc' = "select"
    /\ call' = [NoCall EXCEPT !.op = "update", !.result = "running"]
    /\ io' = <<>>
    /\ scan_ch0' = 0
    /\ aiva' = AllNone(AIN_TOTAL_NUM)
    /\ hw_level' \in HwLevels
    /\ spin' = FALSE
    /\ UNCHANGED <<aside, table, meas, power, need_config, counters>>

\* the transport raises in read_AIN or read_state: update() is left at once
Raised ==
    /\ pc' = "returned"
    /\ call' = [call EXCEPT !.result = "comm"]

\* the column the loop of read_AIN goes to when column ch0 is stored; the
\* scan is over at AIN_PER_MODULE_NUM
next_column(ch0) == ch0 + 1

\* the test of the while loop on the data just read, and what follows it:
\* the column is stored, or the scan is given up, or the read is repeated
after_read(data) ==
    LET st == status_words(data)
    IN  IF ~not_latched(st, scan_ch0)
        THEN /\ aiva' = store_column(aiva, scan_ch0, meas_words(data))
             /\ scan_ch0' = next_column(scan_ch0)
             /\ pc' = IF next_column(scan_ch0) < AIN_PER_MODULE_NUM
                      THEN "select" ELSE "scanned"
             /\ spin' = FALSE
             /\ UNCHANGED <<call, need_config, hw_level>>
        ELSE IF any_error(st)
        THEN /\ need_config' = TRUE
             /\ pc' = "scanned"
             /\ UNCHANGED <<call, scan>>
        ELSE /\ pc' = "read"
             /\ UNCHANGED <<call, need_config, scan>>

\* one turn of the for loop up to its first test: write(arg_select), the
\* sleep, data = read(arg_read); ok is FALSE when the transport raises
scan_column(ans, ok) ==
    LET data == HwData(ans, hw_level, scan_ch0)
        sel == MbWrite(AIN_WRITE_BASE, AIN_TOTAL_SIZE, arg_select(scan_ch0), ok)
    IN  /\ pc = "select"
        /\ ans.kind = "stale" => read_repeat_count < MaxRepeat
        /\ ~ok => scan_ch0 \in RaiseColumns /\ ans.kind = "latched"
        /\ IF ok
           THEN /\ io' = io \o <<sel, MbRead(AIN_READ_BASE, AIN_TOTAL_SIZE, data, TRUE)>>
                /\ after_read(data)
           ELSE /\ io' = Append(io, sel)
                /\ Raised
                /\ UNCHANGED <<need_config, scan>>
        /\ UNCHANGED <<aside, table, meas, power, counters, calls>>

\* one turn of the while loop: the read is repeated
scan_reread(ans) ==
    LET data == HwData(ans, hw_level, scan_ch0)
    IN  /\ pc = "read"
        /\ ans.kind = "stale" => read_repeat_count + 1 < MaxRepeat
        /\ read_repeat_count' = read_repeat_count + 1
        /\ io' = Append(io, MbRead(AIN_READ_BASE, AIN_TOTAL_SIZE, data, TRUE))
        /\ after_read(data)
        /\ UNCHANGED <<aside, table, meas, power, jiffies, write_count, calls>>

\* a range that takes 0x8000 itself for a fault word
uv_from_mask(a) ==
    IF a = None THEN None
    ELSE LET u == Val(a) % 65536
         IN  IF 32768 <= u /\ u < 33024 THEN Some(BitXor(u, 32768)) ELSE None

\* extract_ain_code: u = ctypes.c_uint16(a).value;
\* if 0x8000 < u < 0x8100: return u^0x8000
uv(a) ==
    IF a = None THEN None
    ELSE LET u == Val(a) % 65536
         IN  IF 32768 < u /\ u < 33024 THEN Some(BitXor(u, 32768)) ELSE None
extract_ain_code(ain_values) == [k \in DOMAIN ain_values |-> uv(ain_values[k])]

\* ain[CHANNEL_NUM:2*CHANNEL_NUM] and ain[:CHANNEL_NUM]
ain_current(ain) == [ch \in Channels |-> ain[CHANNEL_NUM + ch]]
ain_voltage(ain) == [ch \in Channels |-> ain[ch]]

\* read_state(): bits 0 and 1 of the digital input word
DinWords == {1, 2, 3}
din_ready(w) == PyBool(w % 2 = 1)
din_on(w) == PyBool((w \div 2) % 2 = 1)

\* the rest of update() once read_AIN() has returned aiva
update_store(w, ok) ==
    /\ pc = "scanned"
    /\ Imeas' = ain_current(aiva)
    /\ Imeas_state' = extract_ain_code(ain_current(aiva))
    /\ Vmeas' = ain_voltage(aiva)
    /\ Vmeas_state' = extract_ain_code(ain_voltage(aiva))
    /\ io' = Append(io, MbRead(DIN_BASE, 1, <<w>>, ok))
    /\ IF ok
       THEN /\ st_ready' = din_ready(w)
            /\ st_on' = din_on(w)
            /\ jiffies' = jiffies + 1
            /\ pc' = "returned"
            /\ call' = [call EXCEPT !.result = "ok"]
       ELSE /\ Raised
            /\ UNCHANGED <<power, jiffies>>
    /\ UNCHANGED <<aside, table, need_config, read_repeat_count, write_count, calls, scan>>

\* the caller takes the result; the locals of the call are gone
Return ==
    /\ pc = "returned"
    /\ pc' = "idle"
    /\ call' = NoCall
    /\ io' = <<>>
    /\ scan_ch0' = 0
    /\ aiva' = AllNone(AIN_TOTAL_NUM)
    /\ hw_level' = 0
    /\ spin' = FALSE
    /\ UNCHANGED <<aside, table, meas, power, need_config, counters, calls>>

Next ==
    \/ \E ok \in BOOLEAN : poweron(ok)
    \/ \E failAt \in 0 .. 4 : poweroff(failAt)
    \/ \E ch \in CmdChannels : is_channel_on(ch)
    \/ \E ch \in CmdChannels, ok \in BOOLEAN : switch_channel_off(ch, ok)
    \/ \E ch \in CmdChannels, force \in BOOLEAN, failAt \in 0 .. 2 :
          switch_channel_on(ch, force, failAt)
    \/ \E ch \in CmdChannels, vh \in SetValues, ok \in BOOLEAN : set_Iref(ch, vh, ok)
    \/ \E ain_rb \in AinReadbacks, aout_rb \in AoutReadbacks, failAt \in 0 .. 4 :
          update_configure(ain_rb, aout_rb, failAt)
    \/ update_scan
    \/ \E ans \in HwAnswers(scan_ch0), ok \in BOOLEAN : scan_column(ans, ok)
    \/ \E ans \in HwAnswers(scan_ch0) : scan_reread(ans)
    \/ \E w \in DinWords, ok \in BOOLEAN : update_store(w, ok)
    \/ Return

Spec == Init /\ [][Next]_vars

(* ------------------------------------------------------------------ *)
(* A caller that asks is_channel_on and keeps the answer               *)
(* ------------------------------------------------------------------ *)
\* aiva of a read_AIN() that completed at a hardware level
ScanResult(level) ==
    [k \in 0 .. (AIN_TOTAL_NUM - 1) |->
        Some(HwMeas(level, k \div AIN_PER_MODULE_NUM, k % AIN_PER_MODULE_NUM))]
\* the readings the driver may hold: none yet, or those of a completed scan
HeldScans == {AllNone(AIN_TOTAL_NUM)} \cup {ScanResult(l) : l \in HwLevels}
\* setpoints a commanded channel may hold: none, its zero offset, another value
HeldIref(ch) == {None, Izero[ch], Some(7)}

\* the driver at any point of its life, as far as is_channel_on looks at it
InitTwice ==
    /\ Izero \in ZeroConfigs
    /\ Ilimit = [ch \in Channels |-> Some(DEFAULT_ILIMIT)]
    /\ \E on \in [CmdChannels -> {PyTrue, PyFalse, PyNone}] :
          channel_on = [ch \in Channels |-> IF ch \in CmdChannels THEN on[ch] ELSE PyNone]
    /\ \E v \in HeldIref(5) :
          Iref = [ch \in Channels |-> IF ch = 5 THEN v ELSE None]
    /\ \E a \in HeldScans :
          /\ Imeas = ain_current(a)
          /\ Vmeas = ain_voltage(a)
          /\ Imeas_state = extract_ain_code(ain_current(a))
          /\ Vmeas_state = extract_ain_code(ain_voltage(a))
    /\ st_ready = PyNone
    /\ st_on \in {PyTrue, PyFalse, PyNone}
    /\ need_config = FALSE
    /\ jiffies = 0
    /\ read_repeat_count = 0
    /\ write_count = 0
    /\ pc = "idle"
    /\ call = NoCall
    /\ io = <<>>
    /\ calls = 0
    /\ scan_ch0 = 0
    /\ aiva = AllNone(AIN_TOTAL_NUM)
    /\ hw_level = 0
    /\ spin = FALSE
    /\ last = NoLast
    /\ ack = NoAck
    /\ fn = NoFn
    /\ thr = NoThr

\* the caller takes the result and keeps what it asked and what it got
ReturnKeep ==
    /\ pc = "returned"
    /\ pc' = "idle"
    /\ call' = NoCall
    /\ io' = <<>>
    /\ last' = [op |-> call.op, ch |-> call.ch, ret |-> call.ret]
    /\ UNCHANGED <<ack, fn, thr, table, meas, power, need_config, counters, calls, scan>>

NextTwice ==
    \/ \E ch \in CmdChannels : is_channel_on(ch)
    \/ ReturnKeep

SpecTwice == InitTwice /\ [][NextTwice]_vars

(* ------------------------------------------------------------------ *)
(* write_ack: a write that waits for the words to show up              *)
(* ------------------------------------------------------------------ *)
\* the calls tried: an address, the words, the indices to compare (idx)
AckAddrs == {AOUT_WRITE_BASE, AIN_WRITE_BASE}
AckWords == {<<AOUT_CONTROL_CONFIG, 0>>, <<ch_code(3), 0>>}
AckIdx == {{0}, {0, 1}}
\* how long the clock may move between max_t = time()+MAX_DELAY and the
\* first test of the loop: not at all, or past the deadline (time() is the
\* wall clock)
AckLags == {0, MAX_DELAY}
\* how long one read may take
AckReadTimes == {0, 4}
\* what a read of the words may return: the words, or the words with word
\* k not yet the one written
AckAnswers(words) ==
    {words} \cup {[words EXCEPT ![k] = words[k] + 1] : k \in 1 .. Len(words)}

\* all(dat[i]==words[i] for i in idx)
ack_match(dat, words, idx) == \A i \in idx : dat[i + 1] = words[i + 1]

\* mb_write([addr, len(words)] + words); max_t = time()+MAX_DELAY
write_ack(addr, words, idx, lag) ==
    /\ Entered
    /\ pc' = "ack_test"
    /\ call' = [NoCall EXCEPT !.op = "write_ack", !.result = "running"]
    /\ io' = <<MbWrite(addr, Len(words), words, TRUE)>>
    /\ ack' = [addr |-> addr, words |-> words, idx |-> idx, now |-> lag,
               max_t |-> MAX_DELAY, dat |-> None, read_count |-> 0]
    /\ UNCHANGED <<last, fn, thr, table, meas, power, need_config, counters, scan>>

\* while time() < max_t: one turn of the loop, or the loop is left
ack_poll(dat, took) ==
    /\ pc = "ack_test"
    /\ ack.now < ack.max_t
    /\ io' = Append(io, MbRead(ack.addr, Len(ack.words), dat, TRUE))
    /\ IF ack_match(dat, ack.words, ack.idx)
       THEN /\ ack' = [ack EXCEPT !.read_count = @ + 1, !.dat = Some(dat),
                                   !.now = @ + took]
            /\ pc' = "ack_return"
            /\ UNCHANGED read_repeat_count
       ELSE /\ ack' = [ack EXCEPT !.read_count = @ + 1, !.dat = Some(dat),
                                   !.now = @ + took + READ_DELAY]
            /\ read_repeat_count' = read_repeat_count + 1
            /\ pc' = "ack_test"
    /\ UNCHANGED <<last, fn, thr, table, meas, power, need_config, jiffies, write_count,
                   scan, call, calls>>

ack_timeout ==
    /\ pc = "ack_test"
    /\ ~(ack.now < ack.max_t)
    /\ pc' = "ack_return"
    /\ UNCHANGED <<aside, table, meas, power, need_config, counters, scan,
                   call, calls, io>>

\* return dat: a local that was never assigned raises UnboundLocalError
ack_return ==
    /\ pc = "ack_return"
    /\ pc' = "returned"
    /\ call' = IF ack.dat = None
               THEN [call EXCEPT !.result = "unbound"]
               ELSE [call EXCEPT !.result = "ok", !.ret = Val(ack.dat)]
    /\ UNCHANGED <<aside, table, meas, power, need_config, counters, scan,
                   calls, io>>

NextAck ==
    \/ \E addr \in AckAddrs, words \in AckWords, idx \in AckIdx, lag \in AckLags :
          write_ack(addr, words, idx, lag)
    \/ \E dat \in AckAnswers(ack.words), took \in AckReadTimes : ack_poll(dat, took)
    \/ ack_timeout
    \/ ack_return

SpecAck == Init /\ [][NextAck]_vars

(* ------------------------------------------------------------------ *)
(* The module-level functions, applied to one argument                 *)
(* ------------------------------------------------------------------ *)
\* what the driver holds while a function of the module is applied
driver == <<table, meas, power, need_config, counters, scan, pc, call, io, calls>>

\* raw words an analog input may carry, as signed or unsigned 16-bit
\* numbers: around 0, around 0x8000 and 0x8100, and their signed forms
AinWords ==
    (-32768 .. -32500) \cup (-260 .. 300) \cup {1234}
        \cup (32500 .. 33300) \cup (65270 .. 65535)

\* extract_ain_code on one reading
apply_uv(a) ==
    /\ fn = NoFn
    /\ fn' = [name |-> "uv", arg |-> a, ok |-> TRUE, out |-> uv(a)]
    /\ UNCHANGED <<last, ack, thr, driver>>

\* a table without the entry of the last bit
ERROR_MSG_short ==
    <<[mask |-> 1, msg |-> "overrange"],
      [mask |-> 2, msg |-> "open circuit"],
      [mask |-> 4, msg |-> "invalid measure (channel configured?)"],
      [mask |-> 16, msg |-> "I/O supply voltage failure"],
      [mask |-> 64, msg |-> "faulty analog input module"]>>

\* ERROR_MSG, its items in the order the source lists them
ERROR_MSG ==
    <<[mask |-> 1, msg |-> "overrange"],
      [mask |-> 2, msg |-> "open circuit"],
      [mask |-> 4, msg |-> "invalid measure (channel configured?)"],
      [mask |-> 16, msg |-> "I/O supply voltage failure"],
      [mask |-> 64, msg |-> "faulty analog input module"],
      [mask |-> 128, msg |-> "underrange"]>>

\* [ msg for mask,msg in ERROR_MSG.iteritems() if code & mask ]
RECURSIVE error_strings(_, _)
error_strings(code, items) ==
    IF items = <<>> THEN <<>>
    ELSE (IF BitAnd(code, Head(items).mask) # 0 THEN <<Head(items).msg>> ELSE <<>>)
            \o error_strings(code, Tail(items))

\* error_str(code), code a nullable mask
error_str(code) ==
    IF code = None \/ code = Some(0) THEN <<"ok">>
    ELSE error_strings(Val(code), ERROR_MSG)

\* masks error_str is applied to
ErrorCodes == {None} \cup {Some(c) : c \in 0 .. 255}

apply_error_str(code) ==
    /\ fn = NoFn
    /\ fn' = [name |-> "error_str", arg |-> code, ok |-> TRUE, out |-> error_str(code)]
    /\ UNCHANGED <<last, ack, thr, driver>>

\* a control word that is the same for both groups
ctrlword_one(g) ==
    IF ~(0 <= g /\ g < AOUT_GROUP_PER_MODULE) THEN [ok |-> FALSE, out |-> None]
    ELSE [ok |-> TRUE, out |-> Some(256)]

\* ctrlword(groupidx) for an integer groupidx (int(groupidx) is groupidx),
\* recall left at False: the control word, or the exception for an index
\* that is no group
ctrlword(g) ==
    IF ~(0 <= g /\ g < AOUT_GROUP_PER_MODULE) THEN [ok |-> FALSE, out |-> None]
    ELSE [ok |-> TRUE, out |-> Some(IF g # 0 THEN 2304 ELSE 256)]

\* groupidx(ctrlword): the group, or ModMuxException
groupidx(c) ==
    IF c = 2304 THEN [ok |-> TRUE, out |-> Some(1)]
    ELSE IF c = 256 THEN [ok |-> TRUE, out |-> Some(0)]
    ELSE [ok |-> FALSE, out |-> None]

\* group indices and control words the two are applied to
GroupIndices == -3 .. 4
CtrlWords == (0 .. 300) \cup (2200 .. 2400) \cup {768, 2816, 4352}

apply_ctrlword(g) ==
    /\ fn = NoFn
    /\ fn' = [name |-> "ctrlword", arg |-> Some(g), ok |-> ctrlword(g).ok,
              out |-> ctrlword(g).out]
    /\ UNCHANGED <<last, ack, thr, driver>>

apply_groupidx(c) ==
    /\ fn = NoFn
    /\ fn' = [name |-> "groupidx", arg |-> Some(c), ok |-> groupidx(c).ok,
              out |-> groupidx(c).out]
    /\ UNCHANGED <<last, ack, thr, driver>>

\* groupidx(ctrlword(g)), for a g that ctrlword takes
apply_round_trip(g) ==
    /\ fn = NoFn
    /\ ctrlword(g).ok
    /\ fn' = [name |-> "round_trip", arg |-> Some(g),
              ok |-> groupidx(Val(ctrlword(g).out)).ok,
              out |-> groupidx(Val(ctrlword(g).out)).out]
    /\ UNCHANGED <<last, ack, thr, driver>>

\* the control word of the burst _write(ch0) sends
apply_write(ch0) ==
    /\ fn = NoFn
    /\ fn' = [name |-> "_write", arg |-> Some(ch0),
              ok |-> _write(ch0, Iref, channel_on, TRUE).result = "ok",
              out |-> Some(_write(ch0, Iref, channel_on, TRUE).io[1].data[1])]
    /\ UNCHANGED <<last, ack, thr, driver>>

NextPure ==
    \/ \E a \in {None} \cup {Some(w) : w \in AinWords} : apply_uv(a)
    \/ \E code \in ErrorCodes : apply_error_str(code)
    \/ \E g \in GroupIndices : apply_ctrlword(g)
    \/ \E c \in CtrlWords : apply_groupidx(c)
    \/ \E g \in GroupIndices : apply_round_trip(g)
    \/ \E ch0 \in Channels : apply_write(ch0)

SpecPure == Init /\ [][NextPure]_vars

(* ------------------------------------------------------------------ *)
(* Properties                                                          *)
(* ------------------------------------------------------------------ *)
\* the call op has just returned
Back(op) == pc = "returned" /\ call.op = op
\* the step is the whole call op (a command runs in one step)
Ran(op) == pc = "idle" /\ pc' = "returned" /\ call'.op = op
\* the channels written together with ch
GroupOf(ch) == {j \in Channels : j \div 4 = ch \div 4}
\* the place of channel ch's value in a burst: after the control word
Slot(ch) == 2 + (ch % 4)
\* the burst that carries zero for the channels first .. first + 3
ZeroBurst(addr, code, first) ==
    [kind |-> "write", addr |-> addr, n |-> 5,
     data |-> <<code, Val(Izero[first]), Val(Izero[first + 1]),
                Val(Izero[first + 2]), Val(Izero[first + 3])>>,
     ok |-> TRUE]

\* C1: after switch_channel_off(i) has returned, on_state[i] is Off and the
\* burst written by the call carries zero_offset[i] for channel i.
C1_SwitchOffWritesZero ==
    (Back("switch_channel_off") /\ call.result = "ok") =>
        /\ channel_on[call.ch] = PyFalse
        /\ Len(io) = 1
        /\ io[1].kind = "write"
        /\ io[1].data[Slot(call.ch)] = Val(Izero[call.ch])

\* C2: after power_off() has returned, every on_state is Unknown, and the
\* call wrote the three groups with their zero offsets, then the coil with 0,
\* the coil once and last.
C2_PowerOffOrder ==
    (Back("poweroff") /\ call.result = "ok") =>
        /\ \A ch \in Channels : channel_on[ch] = PyNone
        /\ \E c \in 1 .. Len(io) :
            /\ io[c] = [kind |-> "coil", addr |-> 0, n |-> 1, data |-> <<0>>, ok |-> TRUE]
            /\ \A j \in 1 .. Len(io) : io[j].kind = "coil" => j = c
            /\ \E i \in 1 .. (c - 1) : io[i] = ZeroBurst(576, 256, 0)
            /\ \E i \in 1 .. (c - 1) : io[i] = ZeroBurst(576, 2304, 4)
            /\ \E i \in 1 .. (c - 1) : io[i] = ZeroBurst(581, 256, 8)

\* power_off() has returned on a supply that had a channel switched on with
\* a setpoint away from its zero offset
C2_Witness ==
    /\ Back("poweroff") /\ call.result = "ok"
    /\ write_count = 4
    /\ Iref[5] # None /\ Iref[5] # Izero[5]

\* C3: a group write for channel ch fails with the incomplete-group error
\* when another channel of ch's group is On with a null setpoint, and the
\* error names exactly the channels of ch's group that have no value.
C3_MissingNames ==
    /\ (Back("switch_channel_off")
            /\ \E j \in GroupOf(call.ch) \ {call.ch} :
                  Truthy(channel_on[j]) /\ Iref[j] = None)
          => call.result = "missing"
    /\ (pc = "returned" /\ call.result = "missing")
          => {call.names[i] : i \in 1 .. Len(call.names)}
                = {name[j] : j \in {k \in GroupOf(call.ch) :
                                        Truthy(channel_on[k]) /\ Iref[k] = None}}

\* C4: a switch_channel_on(i, force) that returns without error leaves
\* on_state[i] On and setpoint[i] non-null, and a setpoint that was non-null
\* is the same after the call.
C4_SwitchOnSetpoint ==
    [][(Ran("switch_channel_on") /\ call'.result = "ok") =>
          /\ channel_on'[call'.ch] = PyTrue
          /\ Iref'[call'.ch] # None
          /\ Iref[call'.ch] # None => Iref'[call'.ch] = Iref[call'.ch]]_vars

\* an unforced switch_channel_on has succeeded on a channel with a setpoint
\* of its own
C4_Witness ==
    /\ Back("switch_channel_on") /\ call.result = "ok" /\ ~call.force
    /\ channel_on[call.ch] = PyTrue
    /\ Iref[call.ch] # None /\ Iref[call.ch] # Izero[call.ch]

\* C5: every setpoint is null or an integer of [-32512, +32512], whatever
\* zero offsets the caller supplied.
C5_SetpointInRange ==
    \A i \in Channels :
        Iref[i] = None \/ (-32512 <= Val(Iref[i]) /\ Val(Iref[i]) <= 32512)

\* C6 as stated: set_Iref(i, v) accepts v exactly when -32512 <= v <= 32512;
\* an accepted v is the setpoint afterwards; a rejected v fails the call,
\* keeps the setpoint and issues no write.
C6_SetpointIsValue ==
    [][Ran("set_Iref") =>
          LET ch == call'.ch
              vh == call'.arg
              accepted == call'.result # "assert"
          IN  /\ accepted <=> (2 * (-32512) <= vh /\ vh <= 2 * 32512)
              /\ accepted => Iref'[ch] # None /\ 2 * Val(Iref'[ch]) = vh
              /\ ~accepted => Iref'[ch] = Iref[ch] /\ io' = <<>>]_vars

\* C6: set_Iref(i, v) accepts v exactly when -32512 <= v <= 32512; for an
\* accepted v the setpoint afterwards is v with its fraction dropped (the
\* integer next to v on the side of zero, v itself when v is whole); a
\* rejected v fails the call, keeps the setpoint and issues no write.
C6_SetpointIsTruncated ==
    [][Ran("set_Iref") =>
          LET ch == call'.ch
              vh == call'.arg
              accepted == call'.result # "assert"
          IN  /\ accepted <=> (2 * (-32512) <= vh /\ vh <= 2 * 32512)
              /\ accepted =>
                    /\ Iref'[ch] # None
                    /\ 2 * Val(Iref'[ch]) \in {vh - 1, vh, vh + 1}
                    /\ Abs(2 * Val(Iref'[ch])) <= Abs(vh)
              /\ ~accepted => Iref'[ch] = Iref[ch] /\ io' = <<>>]_vars

\* set_Iref has stored a value that has a fraction, for a channel that is
\* on, and written the group
C6_Witness ==
    /\ Back("set_Iref") /\ call.result = "ok"
    /\ call.arg % 2 = 1
    /\ 2 * Val(Iref[call.ch]) # call.arg
    /\ io # <<>>

\* C7 as stated: is_channel_on(i) returns the cached on_state[i] whenever
\* that is On or Off, whatever the powered flag; the flag counts only when
\* the cached value is Unknown, where powered == false yields Off.
C7_CacheFirst ==
    [][Ran("is_channel_on") =>
          LET ch == call'.ch
          IN  /\ channel_on[ch] \in {PyTrue, PyFalse} => call'.ret = channel_on[ch]
              /\ (channel_on[ch] = PyNone /\ st_on = PyFalse) => call'.ret = PyFalse]_vars

\* C7: is_channel_on(i) returns Off whenever powered is not true (false or
\* unknown), whatever the cached on_state[i], and leaves the cache as it is;
\* when powered is true it returns the cached on_state[i] whenever that is
\* On or Off.
C7_PoweredFirst ==
    [][Ran("is_channel_on") =>
          LET ch == call'.ch
          IN  /\ st_on # PyTrue => call'.ret = PyFalse /\ channel_on' = channel_on
              /\ (st_on = PyTrue /\ channel_on[ch] \in {PyTrue, PyFalse})
                    => call'.ret = channel_on[ch] /\ channel_on' = channel_on]_vars

\* is_channel_on has answered Off for a channel whose cached state is On,
\* on a supply that is not known to be on
C7_Witness ==
    /\ Back("is_channel_on")
    /\ channel_on[call.ch] = PyTrue
    /\ st_on # PyTrue
    /\ call.ret = PyFalse

\* C8: on_state[i] changes only in switch_channel_on(i) (to On, i only),
\* switch_channel_off(i) (to Off, i only), an update() that configures (all
\* to Off), poweroff (all to Unknown) or an is_channel_on(i) that turns
\* Unknown into On or Off (i only).
C8_OnStateTransitions ==
    [][\A i \in Channels : channel_on'[i] # channel_on[i] =>
          LET others == \A j \in Channels \ {i} : channel_on'[j] = channel_on[j]
          IN  \/ /\ Ran("switch_channel_on") /\ call'.ch = i
                 /\ channel_on'[i] = PyTrue /\ others
              \/ /\ Ran("switch_channel_off") /\ call'.ch = i
                 /\ channel_on'[i] = PyFalse /\ others
              \/ /\ Ran("update") /\ need_config /\ ~need_config'
                 /\ \A j \in Channels : channel_on'[j] = PyFalse
              \/ /\ Ran("poweroff")
                 /\ \A j \in Channels : channel_on'[j] = PyNone
              \/ /\ Ran("is_channel_on") /\ call'.ch = i
                 /\ channel_on[i] = PyNone
                 /\ channel_on'[i] \in {PyTrue, PyFalse} /\ others]_vars

\* is_channel_on has found a channel on from its measured current: the
\* channel has no setpoint
C8_Witness ==
    /\ Back("is_channel_on")
    /\ call.ret = PyTrue
    /\ channel_on[call.ch] = PyTrue
    /\ Iref[call.ch] = None

\* a selector write: the column code goes to the analog input modules
IsSelect(t) ==
    /\ t.kind = "write" /\ t.addr = AIN_WRITE_BASE
    /\ \E c \in 0 .. 7 : t.data[1] = c * 256
\* a read of the analog inputs with the top bit in a status word
IsFaultRead(t) ==
    /\ t.kind = "read" /\ t.addr = AIN_READ_BASE
    /\ \E m \in {1, 3, 5} : t.data[m] >= 32768

\* C9: needs_configuration becomes true only when a scan gives up on a
\* fault bit and false only when an update() has configured successfully;
\* an update() that starts with it set configures only: no selector write,
\* no read of the ready/on word, measurements, ready, on and the cycle
\* counter unchanged, and it never starts a scan.
C9_NeedConfig ==
    [][/\ (~need_config /\ need_config') =>
              /\ pc \in {"select", "read"} /\ pc' = "scanned"
              /\ IsFaultRead(io'[Len(io')])
       /\ (need_config /\ ~need_config') =>
              /\ Ran("update") /\ call'.result = "ok"
              /\ Len(io') = 4
              /\ io'[3].data = <<24576, 12289, 24576, 12289, 24576, 12289>>
              /\ io'[4].data[1] = 24577 /\ io'[4].data[6] = 24577
       /\ (pc = "idle" /\ need_config /\ call'.op = "update") =>
              /\ pc' = "returned"
              /\ \A k \in 1 .. Len(io') :
                    ~IsSelect(io'[k]) /\ ~(io'[k].kind = "read" /\ io'[k].addr = DIN_BASE)
              /\ UNCHANGED <<Imeas, Vmeas, st_ready, st_on, jiffies>>]_vars

\* the update() after a scan that gave up on a fault has configured
C9_Witness ==
    /\ Back("update") /\ call.result = "ok"
    /\ ~need_config
    /\ Len(io) = 4
    /\ jiffies >= 1
    /\ \A ch \in Channels : channel_on[ch] = PyFalse

\* C10: a read with the top bit in a status word, at column c, is the last
\* transfer of the scan: need_config is set, the result holds the
\* measurements of the columns before c and null from column c on.
C10_FaultAborts ==
    (call.op = "update" /\ pc \in {"select", "read", "scanned"}) =>
        \A i \in 1 .. Len(io) : IsFaultRead(io[i]) =>
            /\ i = Len(io)
            /\ pc = "scanned"
            /\ need_config
            /\ \A k \in 0 .. 23 :
                  IF k % 8 < scan_ch0
                  THEN aiva[k] = Some(HwMeas(hw_level, k \div 8, k % 8))
                  ELSE aiva[k] = None

\* a scan has given up at its third column with two columns measured
C10_Witness ==
    /\ call.op = "update" /\ pc = "scanned"
    /\ need_config
    /\ scan_ch0 = 2
    /\ IsFaultRead(io[Len(io)])
    /\ aiva[1] # None /\ aiva[2] = None

\* a read-back of configure(): the k-th transfer reads what the transfer two
\* before it wrote
IsReadback(t, k) == k \in 3 .. Len(t) /\ t[k].kind = "read" /\ t[k].ok

\* C11 as stated: a configure() inside update() whose read-backs equal what
\* was written succeeds, with every on_state Off, needs_configuration false
\* and setpoints, zero offsets, limits and measurements unchanged; when a
\* read-back differs from what was written it fails and leaves on_state and
\* needs_configuration unchanged.
C11_ReadbackEqual ==
    [][(Ran("update") /\ need_config) =>
          /\ call'.result = "ok" =>
                /\ \A ch \in Channels : channel_on'[ch] = PyFalse
                /\ ~need_config'
                /\ UNCHANGED <<Iref, Izero, Ilimit, Imeas, Vmeas>>
          /\ (\E k \in 3 .. 4 : IsReadback(io', k) /\ io'[k].data # io'[k - 2].data) =>
                /\ call'.result = "assert"
                /\ UNCHANGED <<channel_on, need_config>>]_vars

\* C11: a configure() inside update() succeeds when the analog-input
\* read-back equals what was written and the analog-output read-back shows
\* the control word written in the first word of each module (the output
\* words read back are not compared); then every on_state is Off,
\* needs_configuration is false and setpoints, zero offsets, limits and
\* measurements are unchanged.  When the input read-back or an output
\* control word differs it fails and leaves on_state and needs_configuration
\* unchanged.
C11_ConfigWordsEqual ==
    [][(Ran("update") /\ need_config) =>
          LET ain_bad == IsReadback(io', 3) /\ io'[3].data # io'[1].data
              aout_bad == /\ IsReadback(io', 4)
                          /\ \/ io'[4].data[1] # io'[2].data[1]
                             \/ io'[4].data[6] # io'[2].data[6]
          IN  /\ call'.result = "ok" =>
                    /\ Len(io') = 4 /\ \A k \in 1 .. 4 : io'[k].ok
                    /\ ~ain_bad /\ ~aout_bad
                    /\ \A ch \in Channels : channel_on'[ch] = PyFalse
                    /\ ~need_config'
                    /\ UNCHANGED <<Iref, Izero, Ilimit, Imeas, Vmeas>>
              /\ (ain_bad \/ aout_bad) =>
                    /\ call'.result = "assert"
                    /\ UNCHANGED <<channel_on, need_config>>]_vars

\* a configure() has succeeded although an output word read back is not the
\* one written, on a driver that holds a setpoint
C11_Witness ==
    /\ Back("update") /\ call.result = "ok"
    /\ Len(io) = 4
    /\ io[4].data # io[2].data
    /\ ~need_config
    /\ \E ch \in Channels : Iref[ch] # None

\* C12: a second is_channel_on(i) right after a first one returns what the
\* first returned and leaves the channel table as it is; neither call reads
\* or writes a register.
C12_Idempotent ==
    [][(Ran("is_channel_on") /\ last.op = "is_channel_on" /\ last.ch = call'.ch) =>
          /\ call'.ret = last.ret
          /\ channel_on' = channel_on
          /\ io' = <<>>]_vars

\* a second is_channel_on has returned, after a first that guessed the
\* channel on from its measured current and stored the guess
C12_Witness ==
    /\ Back("is_channel_on")
    /\ last.op = "is_channel_on" /\ last.ch = call.ch
    /\ last.ret = PyTrue /\ call.ret = PyTrue
    /\ Iref[call.ch] = None
    /\ calls = 2

\* a read of the analog input region
IsAinRead(t) == t.kind = "read" /\ t.addr = 202
\* where the selector writes of the call are
Selects == {i \in 1 .. Len(io) : IsSelect(io[i])}
\* selector writes before transfer i
SelectsBefore(i) == Cardinality({j \in Selects : j < i})
\* all three status words of a read show column c
Latched(t, c) == \A m \in {1, 3, 5} : t.data[m] = c * 256
\* the last read made for column c
LastRead(c) ==
    CHOOSE i \in 1 .. Len(io) :
        /\ IsAinRead(io[i])
        /\ SelectsBefore(i) = c + 1
        /\ (i = Len(io) \/ ~IsAinRead(io[i + 1]))

\* C13 (seen in the transfers of a scan that has ended):
\* a scan takes the columns 0..7 in increasing order; for column c it
\* writes c*0x100 to the three modules in one burst, repeats the read until
\* the three status words are c*0x100, and only then stores the word of
\* module m at index 8*m + c; update() takes entries 0..11 as voltages and
\* entries 12..23 as currents.
C13_ScanLayout ==
    (call.op = "update" /\ pc \in {"scanned", "returned"} /\ Selects # {}) =>
        /\ \A i \in Selects :
              LET c == SelectsBefore(i)
              IN  /\ c <= 7
                  /\ io[i].addr = 586 /\ io[i].n = 6
                  /\ io[i].data = <<c * 256, 0, c * 256, 0, c * 256, 0>>
                  /\ i > 1 => IsAinRead(io[i - 1]) /\ Latched(io[i - 1], c - 1)
        /\ \A i \in 1 .. (Len(io) - 1) :
              (IsAinRead(io[i]) /\ IsAinRead(io[i + 1]))
                  => ~Latched(io[i], SelectsBefore(i) - 1)
        /\ \A c \in 0 .. 7 :
              IF c < scan_ch0
              THEN LET t == io[LastRead(c)]
                   IN  /\ Latched(t, c)
                       /\ \A m \in 0 .. 2 : aiva[8 * m + c] = Some(t.data[2 * m + 2])
              ELSE \A m \in 0 .. 2 : aiva[8 * m + c] = None
        /\ (pc = "returned" /\ call.result = "ok") =>
              \A i \in 0 .. 11 : Vmeas[i] = aiva[i] /\ Imeas[i] = aiva[12 + i]

\* an update() has returned from a scan that completed all eight columns
\* and had to repeat a read
C13_Witness ==
    /\ Back("update") /\ call.result = "ok"
    /\ scan_ch0 = 8
    /\ Cardinality(Selects) = 8
    /\ Len(io) = 18
    /\ Imeas[7] = Some(io[LastRead(3)].data[6])
    /\ Imeas[7] # Some(io[LastRead(3) - 1].data[6])

\* C14: an unforced switch_channel_on(i) fails with the not-powered error
\* whenever powered is not true and with the not-ready error whenever
\* powered is true and ready is not; it then writes no register and no coil
\* and changes nothing of the driver.  A forced call makes neither check.
C14_OnChecks ==
    [][Ran("switch_channel_on") =>
          LET refused == /\ io' = <<>>
                         /\ UNCHANGED <<channel_on, Izero, Ilimit, Iref, Imeas, Vmeas,
                                        st_ready, st_on, need_config, write_count>>
          IN  /\ (~call'.force /\ st_on # PyTrue) =>
                    call'.result = "off" /\ refused
              /\ (~call'.force /\ st_on = PyTrue /\ st_ready # PyTrue) =>
                    call'.result = "not_ready" /\ refused
              /\ call'.force => call'.result \notin {"off", "not_ready"}
              /\ (call'.force /\ st_on # PyTrue) =>
                    io' # <<>> /\ io'[1].kind = "coil" /\ io'[1].data = <<1>>]_vars

\* an unforced switch_channel_on has been refused on a supply that is on
\* and not ready
C14_Witness ==
    /\ Back("switch_channel_on") /\ ~call.force
    /\ call.result = "not_ready"
    /\ st_on = PyTrue /\ st_ready = PyFalse
    /\ io = <<>>

\* C15: write_ack issues exactly one write and then reads the same address;
\* it ends no later than one poll after the deadline, returns as soon as
\* the words compared are the ones written, and when the deadline passes
\* without a match it returns the last words read, without an error,
\* whenever the deadline passes.
C15_WriteAck ==
    Back("write_ack") =>
        /\ io[1].kind = "write" /\ io[1].data = ack.words
        /\ \A k \in 2 .. Len(io) :
              /\ io[k].kind = "read" /\ io[k].addr = io[1].addr
              /\ (\A i \in ack.idx : io[k].data[i + 1] = io[1].data[i + 1]) => k = Len(io)
        /\ ack.now <= ack.max_t + 4 + 1
        /\ call.result = "ok"
        /\ Len(io) >= 2 /\ call.ret = io[Len(io)].data

\* the unsigned value of a 16-bit word given signed or unsigned
U16(w) == IF w < 0 THEN w + 65536 ELSE w

\* C16: for a raw word with unsigned value u, extract_ain_code yields the
\* mask u XOR 0x8000 (u without its top bit) when 0x8000 < u < 0x8100 and
\* null otherwise; 0x8004 yields 0x04; 0, 1234, 0x8000, 0x8100 and every
\* u >= 0x8100 yield null; a null reading yields null.
C16_FaultMask ==
    fn.name = "uv" =>
        /\ fn.arg = None => fn.out = None
        /\ fn.arg # None =>
              LET u == U16(Val(fn.arg))
              IN  /\ (32768 < u /\ u < 33024) => fn.out = Some(u - 32768)
                  /\ (u <= 32768 \/ u >= 33024) => fn.out = None
                  /\ u = 32772 => fn.out = Some(4)
                  /\ u \in {0, 1234, 32768, 33024} => fn.out = None

\* extract_ain_code has met the signed form of 0x8004
C16_Witness ==
    /\ fn.name = "uv"
    /\ fn.arg = Some(-32764)
    /\ fn.out = Some(4)

\* the fault bits that have a name
FaultNames ==
    [b \in {1, 2, 4, 16, 64, 128} |->
        CASE b = 1 -> "overrange"
          [] b = 2 -> "open circuit"
          [] b = 4 -> "invalid measure (channel configured?)"
          [] b = 16 -> "I/O supply voltage failure"
          [] b = 64 -> "faulty analog input module"
          [] b = 128 -> "underrange"]
\* bit b (a power of two) is set in c
BitSet(c, b) == c % (2 * b) >= b

C18_ControlWord ==
    /\ fn.name = "ctrlword" =>
          /\ fn.arg = Some(0) => fn.ok /\ fn.out = Some(256)
          /\ fn.arg = Some(1) => fn.ok /\ fn.out = Some(2304)
          /\ fn.arg \notin {Some(0), Some(1)} => ~fn.ok
    /\ fn.name = "groupidx" =>
          /\ fn.arg = Some(256) => fn.ok /\ fn.out = Some(0)
          /\ fn.arg = Some(2304) => fn.ok /\ fn.out = Some(1)
          /\ fn.arg \notin {Some(256), Some(2304)} => ~fn.ok
    /\ fn.name = "round_trip" => fn.ok /\ fn.out = fn.arg
    /\ fn.name = "_write" =>
          LET g == (Val(fn.arg) % 8) \div 4
          IN  /\ fn.ok
              /\ fn.out = Some(IF g = 0 THEN 256 ELSE 2304)

\* a group write for a channel of the second group of a module
C18_Witness ==
    /\ fn.name = "_write"
    /\ fn.arg = Some(6)
    /\ fn.out = Some(2304)

\* C19: the burst of a successful switch_channel_on(i) carries setpoint[i]
\* as the value of channel i (the zero offset only when the setpoint was
\* null and has been set to it), whatever on_state[i] was before.
C19_SwitchOnWritesSetpoint ==
    (Back("switch_channel_on") /\ call.result = "ok") =>
        /\ io # <<>>
        /\ io[Len(io)].kind = "write"
        /\ Iref[call.ch] # None
        /\ io[Len(io)].data[Slot(call.ch)] = Val(Iref[call.ch])

\* C20: measured_current and measured_voltage are the readings of the most
\* recent scan that completed all eight columns, null before the first:
\* update() stores the result of a scan that completed, and no other step,
\* a scan given up on a fault bit included, changes them.
C20_LastCompleteScan ==
    [][IF pc = "scanned" /\ scan_ch0 = 8
       THEN \A i \in 0 .. 11 : Vmeas'[i] = aiva[i] /\ Imeas'[i] = aiva[12 + i]
       ELSE UNCHANGED <<Imeas, Vmeas>>]_vars

\* the burst a group write for channel ch sends when the table holds the
\* on_states on and the setpoints iref
GroupBurst(t, ch, on, iref) ==
    /\ t.addr = 576 + 5 * (ch \div 8)
    /\ t.n = 5 /\ Len(t.data) = 5
    /\ t.data[1] = (IF (ch % 8) \div 4 = 0 THEN 256 ELSE 2304)
    /\ \A j \in 0 .. 3 :
          LET k == 4 * (ch \div 4) + j
          IN  t.data[2 + j] = (IF on[k] = PyTrue THEN Val(iref[k]) ELSE Val(Izero[k]))

\* C21: every analog-output write of a command on channel ch is one burst
\* to the module of ch: the control word of the group of ch, then the four
\* values of the channels of that group in index order, the setpoint of a
\* channel that is On when the burst is written and the zero offset of any
\* other; power-off writes one such burst per group.
C21_GroupBurst ==
    [][/\ (Ran("switch_channel_on") \/ Ran("switch_channel_off") \/ Ran("set_Iref")) =>
            /\ Cardinality({k \in 1 .. Len(io') : io'[k].kind = "write"}) <= 1
            /\ \A k \in 1 .. Len(io') : io'[k].kind = "write" =>
                  GroupBurst(io'[k], call'.ch, channel_on, Iref')
       /\ Ran("poweroff") =>
            \A k \in 1 .. Len(io') : io'[k].kind = "write" =>
                  /\ k <= 3
                  /\ GroupBurst(io'[k], 4 * (k - 1), channel_on', Iref)]_vars

\* set_Iref has written the group of two channels that are on, one with
\* the new setpoint, and of two that are not
C21_Witness ==
    /\ Back("set_Iref") /\ call.result = "ok"
    /\ Len(io) = 1
    /\ channel_on[5] = PyTrue /\ channel_on[6] = PyTrue
    /\ channel_on[4] # PyTrue
    /\ io[1].data[2 + (call.ch % 4)] = Val(Iref[call.ch])
    /\ Iref[call.ch] # Izero[call.ch]

\* what the rules of inference give for channel i in the current table
Inferred(i) ==
    IF Iref[i] # None
    THEN PyBool(Iref[i] # Izero[i])
    ELSE IF Imeas[i] # None /\ Ilimit[i] # None
    THEN PyBool(Abs(Val(Imeas[i]) - Val(Izero[i])) > Val(Ilimit[i]))
    ELSE PyNone

\* C22: with on_state[i] Unknown and the supply powered, is_channel_on(i)
\* returns On or Off by setpoint[i] # zero_offset[i] when the setpoint is
\* known, else by |measured_current[i] - zero_offset[i]| > limit[i] when
\* both are known, else Unknown; the result is what on_state[i] holds after
\* the call, so an Unknown result stays Unknown, and no other channel changes.
C22_Inference ==
    [][Ran("is_channel_on") /\ channel_on[call'.ch] = PyNone /\ Truthy(st_on) =>
          /\ call'.ret = Inferred(call'.ch)
          /\ channel_on' = [channel_on EXCEPT ![call'.ch] = Inferred(call'.ch)]]_vars

\* is_channel_on has found a channel on that no command ever gave a
\* setpoint: the answer came from the measured current and is stored
C22_Witness ==
    /\ Back("is_channel_on") /\ call.ret = PyTrue
    /\ Iref[call.ch] = None
    /\ Imeas[call.ch] # None
    /\ channel_on[call.ch] = PyTrue

(* ------------------------------------------------------------------ *)
(* read_AIN() alone, with hardware that may stay stale for any time     *)
(* ------------------------------------------------------------------ *)
\* one more turn of the while loop on a status word that is still stale,
\* once read_repeat_count stands at its bound: the read is made, but neither
\* counted nor recorded
scan_reread_spin ==
    /\ pc = "read"
    /\ read_repeat_count + 1 >= MaxRepeat
    /\ spin' = ~spin
    /\ UNCHANGED <<aside, table, meas, power, need_config, counters, pc, call, io,
                   calls, scan_ch0, aiva, hw_level>>

\* the driver goes on with the for loop of read_AIN
scan_runs == \E ans \in HwAnswers(scan_ch0), ok \in BOOLEAN : scan_column(ans, ok)
\* a read of the while loop finds every module latched, or one at fault
scan_settles ==
    \E ans \in HwAnswers(scan_ch0) : ans.kind # "stale" /\ scan_reread(ans)

NextScan ==
    \/ update_scan
    \/ \E ans \in HwAnswers(scan_ch0), ok \in BOOLEAN : scan_column(ans, ok)
    \/ \E ans \in HwAnswers(scan_ch0) : scan_reread(ans)
    \/ scan_reread_spin
    \/ \E w \in DinWords, ok \in BOOLEAN : update_store(w, ok)
    \/ Return

\* the thread in read_AIN keeps running, and for every column the hardware
\* at some read shows the selector in every module or a fault
SpecScan == Init /\ [][NextScan]_vars /\ WF_vars(scan_runs) /\ WF_vars(scan_settles)

\* the step has read the analog inputs of column scan_ch0
ReadColumn ==
    /\ pc \in {"select", "read"}
    /\ Len(io') > Len(io)
    /\ io'[Len(io')].kind = "read" /\ io'[Len(io')].ok
\* every module shows the selector of column c
AllLatched(data, c) == \A m \in {1, 3, 5} : data[m] = 256 * c
\* some module shows the top bit
SomeFault(data) == \E m \in {1, 3, 5} : data[m] >= 32768

C24_NonEmpty ==
    (fn.name = "error_str" /\ fn.arg # Some(0)) => Len(fn.out) >= 1

\* C25: with update() and every other call serialized, no mixed channel
\* table is seen between operations: an update() that leaves the measured
\* currents of its scan in the table leaves with them the fault masks and
\* the voltages of that scan and the ready and powered bits it has read
\* after that scan.
C25_SerializedWhole ==
    [][(pc = "scanned" /\ pc' = "returned" /\ Imeas' = ain_current(aiva)) =>
          /\ Imeas_state' = extract_ain_code(ain_current(aiva))
          /\ Vmeas' = ain_voltage(aiva)
          /\ Vmeas_state' = extract_ain_code(ain_voltage(aiva))
          /\ io'[Len(io')].kind = "read" /\ io'[Len(io')].addr = 0
          /\ io'[Len(io')].ok
          /\ st_ready' = PyBool(io'[Len(io')].data[1] % 2 = 1)
          /\ st_on' = PyBool((io'[Len(io')].data[1] \div 2) % 2 = 1)]_vars

\* C26: a command that fails leaves the channel table as it was: when
\* set_Iref(i, v) with v in range, or switch_channel_on(i), fails on an
\* incomplete group or in the transport, setpoint[i] and on_state[i] are
\* what they were before the call, and on an incomplete group no burst has
\* been written.
C26_FailureLeavesTable ==
    [][((Ran("set_Iref") \/ Ran("switch_channel_on"))
            /\ call'.result \in {"comm", "missing"}) =>
          /\ Iref'[call'.ch] = Iref[call'.ch]
          /\ channel_on'[call'.ch] = channel_on[call'.ch]
          /\ call'.result = "missing" =>
                \A k \in 1 .. Len(io') :
                    ~(io'[k].kind = "write" /\ io'[k].addr >= 576)]_vars

(* ------------------------------------------------------------------ *)
(* The driver from a power_off() on, with no switch_channel_on after it *)
(* ------------------------------------------------------------------ *)
\* the first call is a power_off() that returns; update(), set_Iref,
\* poweron and is_channel_on follow in any order
NextOff ==
    \/ calls = 0 /\ poweroff(0)
    \/ calls > 0 /\ \E ok \in BOOLEAN : poweron(ok)
    \/ calls > 0 /\ \E ch \in CmdChannels : is_channel_on(ch)
    \/ calls > 0 /\ \E ch \in CmdChannels, vh \in SetValues, ok \in BOOLEAN : set_Iref(ch, vh, ok)
    \/ calls > 0 /\ update_scan
    \/ \E ans \in HwAnswers(scan_ch0), ok \in BOOLEAN : scan_column(ans, ok)
    \/ \E ans \in HwAnswers(scan_ch0) : scan_reread(ans)
    \/ \E w \in DinWords, ok \in BOOLEAN : update_store(w, ok)
    \/ Return

SpecOff == InitTwice /\ [][NextOff]_vars

\* C27: once power_off() has returned, and as long as switch_channel_on is
\* not called, no is_channel_on(i) returns On and no on_state[i] is On,
\* whatever update(), set_Iref, poweron and is_channel_on calls follow; a
\* powered flag that is stale and a setpoint that was kept do not make a
\* channel count as On.
C27_OffAfterPowerOff ==
    calls >= 1 =>
        /\ \A i \in Channels : channel_on[i] # PyTrue
        /\ Back("is_channel_on") => call.ret # PyTrue

(* ------------------------------------------------------------------ *)
(* Two callers inside set_Iref at the same time, nothing serializing    *)
(* ------------------------------------------------------------------ *)
\* the channel each caller sets: two channels of the group 4 .. 7
CallerChannel == [c \in Callers |-> 4 + c]

\* the driver after switch_channel_on(5, True) and switch_channel_on(6, True)
\* have returned: both channels on, their setpoints at the zero offsets
InitRace ==
    /\ Izero \in ZeroConfigs
    /\ Ilimit = [ch \in Channels |-> Some(DEFAULT_ILIMIT)]
    /\ channel_on = [ch \in Channels |-> IF ch \in CmdChannels THEN PyTrue ELSE PyNone]
    /\ Iref = [ch \in Channels |-> IF ch \in CmdChannels THEN Izero[ch] ELSE None]
    /\ Imeas = AllNone(CHANNEL_NUM)
    /\ Vmeas = AllNone(CHANNEL_NUM)
    /\ Imeas_state = AllNone(CHANNEL_NUM)
    /\ Vmeas_state = AllNone(CHANNEL_NUM)
    /\ st_ready = PyNone
    /\ st_on = PyNone
    /\ need_config = FALSE
    /\ jiffies = 0
    /\ read_repeat_count = 0
    /\ write_count = 2
    /\ pc = "idle"
    /\ call = NoCall
    /\ io = <<>>
    /\ calls = 2
    /\ scan_ch0 = 0
    /\ aiva = AllNone(AIN_TOTAL_NUM)
    /\ hw_level = 0
    /\ spin = FALSE
    /\ last = NoLast
    /\ ack = NoAck
    /\ fn = NoFn
    /\ thr = [c \in Callers |-> [pc |-> "out", ch |-> CallerChannel[c], burst |-> <<>>]]

\* set_Iref up to self.Iref[ch0] = int(value): the assert, then the record
set_Iref_record(c, vh) ==
    /\ thr[c].pc = "out"
    /\ IF ~InRange(vh)
       THEN /\ thr' = [thr EXCEPT ![c].pc = "done"]
            /\ UNCHANGED Iref
       ELSE /\ thr' = [thr EXCEPT ![c].pc = "recorded"]
            /\ Iref' = [Iref EXCEPT ![thr[c].ch] = Some(PyInt(vh))]
    /\ UNCHANGED <<last, ack, fn, channel_on, Izero, Ilimit, meas, power, need_config,
                   counters, scan, pc, call, io, calls>>

\* if self.channel_on[ch0]: and _write(ch0) up to args: the burst is built
\* from the table as it is now
set_Iref_values(c) ==
    LET w == _write(thr[c].ch, Iref, channel_on, TRUE)
    IN  /\ thr[c].pc = "recorded"
        /\ IF ~Truthy(channel_on[thr[c].ch])
           THEN /\ thr' = [thr EXCEPT ![c].pc = "done"]
                /\ UNCHANGED write_count
           ELSE /\ write_count' = write_count + 1
                /\ thr' = [thr EXCEPT ![c].pc = IF w.result = "ok" THEN "built" ELSE "done",
                                      ![c].burst = w.io]
        /\ UNCHANGED <<last, ack, fn, table, meas, power, need_config, jiffies,
                       read_repeat_count, scan, pc, call, io, calls>>

\* self.mb_write(args): the burst reaches the hardware, and set_Iref returns
set_Iref_mb_write(c) ==
    /\ thr[c].pc = "built"
    /\ io' = io \o thr[c].burst
    /\ thr' = [thr EXCEPT ![c].pc = "done"]
    /\ UNCHANGED <<last, ack, fn, table, meas, power, need_config, counters, scan,
                   pc, call, calls>>

NextRace ==
    \/ \E c \in Callers, vh \in SetValues : set_Iref_record(c, vh)
    \/ \E c \in Callers : set_Iref_values(c)
    \/ \E c \in Callers : set_Iref_mb_write(c)

SpecRace == InitRace /\ [][NextRace]_vars

\* C28: when two callers have run set_Iref on two channels of one group
\* that are on, at the same time and unserialized, and both have returned,
\* the last burst written for the group carries the stored setpoint of
\* both channels, whatever the order of their steps.
C28_LastBurstCurrent ==
    ((\A c \in Callers : thr[c].pc = "done") /\ io # <<>>) =>
        \A c \in Callers :
            io[Len(io)].data[2 + (CallerChannel[c] % 4)] = Val(Iref[CallerChannel[c]])

====
